---------------------------- MODULE Spec2Model ----------------------------
(***************************************************************************)
(* State machine of musicproject1.py: the credential store (users table),  *)
(* the song store (songs table and the static/ directory), the signed      *)
(* session token and the request handlers of the FastAPI application.      *)
(*                                                                         *)
(* Time is counted in ticks of 1/TicksPerSecond second, so that the        *)
(* truncation of datetime values to whole seconds done by the JWT library  *)
(* (timegm(utctimetuple())) is part of the model.                          *)
(*                                                                         *)
(* Library behaviour the source relies on, modelled as the libraries       *)
(* implement it:                                                           *)
(*   - python-jose jwt.encode turns a datetime "exp" into whole seconds,   *)
(*     jwt.decode raises ExpiredSignatureError (a JWTError) when           *)
(*     exp < now, with now in whole seconds and leeway 0;                  *)
(*   - passlib's bcrypt handler uses the first 72 bytes of the secret      *)
(*     (truncate_size = 72, truncate_error = False);                       *)
(*   - SQLAlchemy renders filter_by(col=None) as "col IS NULL";            *)
(*   - a UNIQUE column admits any number of NULLs.                         *)
(* The column full_name (never read by a decision) is left out.            *)
(***************************************************************************)
EXTENDS Integers, Sequences, FiniteSets, TLC

\* Python's None, for the optional strings (email, the "sub" claim).
None == "None"

SECRET_KEY == "secret_key_example"
ACCESS_TOKEN_EXPIRE_MINUTES == 30
\* create_access_token's default when expires_delta is falsy
DefaultExpireMinutes == 15
\* passlib.handlers.bcrypt: truncate_size
BcryptMaxLen == 72

\* ---- bounds of the model
TicksPerSecond == 2
MaxAdvances == 3
\* song ids stay within 1..MaxSongId
MaxSongId == 2

\* ---- input sets
Usernames == {"alice", "bob"}
Emails == {None, "a@x"}
LongPrefix == [i \in 1..BcryptMaxLen |-> "x"]
PwShort == <<"p">>
PwLongA == LongPrefix \o <<"a">>
PwLongB == LongPrefix \o <<"b">>
Passwords == {PwShort, PwLongA, PwLongB}
SongNames == {"n1", "n2"}
Artists == {"a1"}
Filenames == {"f1"}

VARIABLES
    users,      \* rows of the users table
    songs,      \* rows of the songs table
    files,      \* paths present in static/
    now,        \* wall clock, in ticks
    advances,   \* how many times the clock was advanced (bounds the run)
    cookie,     \* the browser's access_token cookie
    issued_at,  \* history: the tick at which the browser's cookie was issued
    copied,     \* a token copied out of the browser's cookie jar (or Absent)
    registered, \* history: the <<username, password>> pairs register accepted
    inflight,   \* register requests of other worker processes, between their
                \* checks and their insert
    last        \* the last request handled: [op, arg, tok, resp]

vars == <<users, songs, files, now, advances, cookie, issued_at, copied,
          registered, inflight, last>>

\* the song store, the clock and the browser, for UNCHANGED
song_store == <<songs, files>>
clock == <<now, advances>>
browser == <<cookie, issued_at, copied>>

\* ------------------------------------------------------------------ time

\* calendar.timegm(dt.utctimetuple()): whole seconds, the fraction dropped
timegm(t) == t \div TicksPerSecond

\* timedelta(minutes=m), in ticks
timedelta_minutes(m) == m * 60 * TicksPerSecond

\* ---------------------------------------------------------------- tokens

\* The access_token cookie of a request: absent, a string that is no JWT,
\* or a JWT with its claims and the key that signed it.
Token(kind, sub, exp, key) == [kind |-> kind, sub |-> sub, exp |-> exp, key |-> key]
Absent == Token("absent", None, 0, None)
Garbage == Token("garbage", None, 0, None)

create_access_token(sub, expires_delta, t) ==
    LET expire == t + (IF expires_delta # 0 THEN expires_delta
                       ELSE timedelta_minutes(DefaultExpireMinutes))
    IN  Token("jwt", sub, timegm(expire), SECRET_KEY)

\* jwt.decode comparing the expiry, in seconds, with a clock in ticks
jwt_decode_exp_in_ticks(token, t) ==
    IF token.kind # "jwt" THEN [error |-> TRUE, sub |-> None]
    ELSE IF token.key # SECRET_KEY THEN [error |-> TRUE, sub |-> None]
    ELSE IF token.exp < t THEN [error |-> TRUE, sub |-> None]
    ELSE [error |-> FALSE, sub |-> token.sub]

\* jwt.decode(token, SECRET_KEY, algorithms=[ALGORITHM]) at time t:
\* the payload, or JWTError
jwt_decode(token, t) ==
    IF token.kind # "jwt" THEN [error |-> TRUE, sub |-> None]
    ELSE IF token.key # SECRET_KEY THEN [error |-> TRUE, sub |-> None]
    ELSE IF token.exp < timegm(t) THEN [error |-> TRUE, sub |-> None]
    ELSE [error |-> FALSE, sub |-> token.sub]

\* -------------------------------------------------------------- responses

Response(status, detail, headers, user, set_cookie) ==
    [status |-> status, detail |-> detail, headers |-> headers,
     user |-> user, set_cookie |-> set_cookie]

HTTPException(status, detail, headers) == Response(status, detail, headers, None, {})

\* templates.TemplateResponse(view, ...) rendered for `user`
TemplateResponse(view, user) == Response(200, view, None, user, {})

credentials_exception ==
    HTTPException(401, "Could not validate credentials", "WWW-Authenticate: Bearer")

\* ------------------------------------------------------------ the stores

Max(S) == CHOOSE m \in S : \A x \in S : x <= m

\* INTEGER PRIMARY KEY of SQLite: the largest rowid plus one
NextId(rows) == IF rows = {} THEN 1 ELSE Max({r.id : r \in rows}) + 1

\* pwd_context.hash: bcrypt digests the first BcryptMaxLen bytes
get_password_hash(password) ==
    [scheme |-> "bcrypt",
     digest |-> SubSeq(password, 1, IF Len(password) < BcryptMaxLen
                                    THEN Len(password) ELSE BcryptMaxLen)]

verify_password(plain_password, hashed_password) ==
    get_password_hash(plain_password).digest = hashed_password.digest

\* db.query(UserModel).filter(UserModel.username == username): the rows
\* (.first() is None iff the set is empty)
get_user_by_username(store, username) == {r \in store : r.username = username}

\* db.query(UserModel).filter_by(email=email): email = None is "IS NULL"
query_by_email(store, email) == {r \in store : r.email = email}

\* The UNIQUE constraints of the users table
UniqueViolation(store, username, email) ==
    \/ \E r \in store : r.username = username
    \/ email # None /\ \E r \in store : r.email = email

\* create_user on a table without its UNIQUE constraints
create_user_unchecked(store, username, password, email) ==
    store \cup {[id |-> NextId(store), username |-> username, email |-> email,
                 hashed_password |-> get_password_hash(password),
                 disabled |-> FALSE]}

\* db.add; db.commit: the row is inserted unless a UNIQUE constraint fails
\* (IntegrityError, nothing written)
create_user(store, username, password, email) ==
    IF UniqueViolation(store, username, email) THEN store
    ELSE store \cup {[id |-> NextId(store), username |-> username, email |-> email,
                      hashed_password |-> get_password_hash(password),
                      disabled |-> FALSE]}

\* the user rows (at most one), or {} for False
authenticate_user(store, username, password) ==
    {r \in get_user_by_username(store, username) :
        verify_password(password, r.hashed_password)}

\* --------------------------------------------------------- the resolver

Resolved(user) == [exc |-> {}, user |-> {user}]
Raised(exc) == [exc |-> {exc}, user |-> {}]

\* get_current_user with an exception of its own for a token that fails to decode
get_current_user_leaky(token, store, t) ==
    IF token.kind = "absent" THEN Raised(credentials_exception)
    ELSE LET payload == jwt_decode(token, t)
         IN  IF payload.error
             THEN Raised(HTTPException(401, "Token expired or invalid",
                                       "WWW-Authenticate: Bearer"))
             ELSE IF payload.sub = None THEN Raised(credentials_exception)
             ELSE LET found == get_user_by_username(store, payload.sub)
                  IN  IF found = {} THEN Raised(credentials_exception)
                      ELSE Resolved(CHOOSE r \in found : TRUE)

get_current_user(token, store, t) ==
    IF token.kind = "absent" THEN Raised(credentials_exception)
    ELSE LET payload == jwt_decode(token, t)
         IN  IF payload.error THEN Raised(credentials_exception)
             ELSE IF payload.sub = None THEN Raised(credentials_exception)
             ELSE LET found == get_user_by_username(store, payload.sub)
                  IN  IF found = {} THEN Raised(credentials_exception)
                      ELSE Resolved(CHOOSE r \in found : TRUE)

get_current_active_user(token, store, t) ==
    LET current == get_current_user(token, store, t)
    IN  IF current.exc # {} THEN current
        ELSE IF (CHOOSE r \in current.user : TRUE).disabled
             THEN Raised(HTTPException(400, "Inactive user", None))
             ELSE current

\* ------------------------------------------------------------- requests

\* The expiry of the tokens made outside the server: 30 minutes after the start
CraftedExp == timegm(timedelta_minutes(ACCESS_TOKEN_EXPIRE_MINUTES))

\* A token with its signature broken (a byte changed, or another key)
Tamper(token) == [token EXCEPT !.key = "other_key"]

\* Tokens made outside the server: no cookie, a string that is no JWT, JWTs
\* signed with the (published) SECRET_KEY, without or with a "sub", and a JWT
\* signed with another key
Crafted ==
    {Absent, Garbage, Tamper(Token("jwt", "alice", CraftedExp, SECRET_KEY))} \cup
    {Token("jwt", s, CraftedExp, SECRET_KEY) : s \in Usernames \cup {None}}

\* The access_token cookie a request may carry
RequestTokens ==
    {cookie, copied} \cup Crafted
        \cup {Tamper(k) : k \in {k \in {cookie, copied} : k.kind = "jwt"}}

\* A handled request: the handler, the username its form names (None when it
\* has none), the cookie it carried and the response
Handled(op, arg, token, resp) == [op |-> op, arg |-> arg, tok |-> token, resp |-> resp]

\* The requester's user row, for a request whose dependency resolved
UserOf(resolved) == CHOOSE r \in resolved.user : TRUE

ClockSteps == {1, timedelta_minutes(ACCESS_TOKEN_EXPIRE_MINUTES) - 1}

\* The environment: time passes
Advance(d) ==
    /\ advances < MaxAdvances
    /\ now' = now + d
    /\ advances' = advances + 1
    /\ UNCHANGED <<users, song_store, browser, registered, inflight, last>>

\* The environment: the browser's cookie is copied elsewhere
CopyToken ==
    /\ cookie.kind = "jwt"
    /\ copied # cookie
    /\ copied' = cookie
    /\ UNCHANGED <<users, song_store, clock, cookie, issued_at, registered,
                   inflight, last>>

\* The response of register's checks (lines 174-185), {} when they pass
register_checks(store, username, email) ==
    IF get_user_by_username(store, username) # {}
    THEN {HTTPException(400, "Username already registered", None)}
    ELSE IF query_by_email(store, email) # {}
    THEN {HTTPException(400, "Email already registered", None)}
    ELSE {}

\* create_user as register calls it, and what register answers
register_insert(store, username, password, email) ==
    LET written == create_user(store, username, password, email)
    IN  IF written = store
        THEN [store |-> store,
              resp |-> HTTPException(500, "Internal Server Error", None)]
        ELSE [store |-> written,
              resp |-> TemplateResponse("login_form.html", username)]

\* POST /register with the insert done before the email check
register_write_first(username, password, email) ==
    LET failed == register_checks(users, username, email)
        resp == IF failed # {} THEN CHOOSE e \in failed : TRUE
                ELSE TemplateResponse("login_form.html", username)
    IN  /\ users' = IF get_user_by_username(users, username) = {}
                    THEN create_user_unchecked(users, username, password, email)
                    ELSE users
        /\ registered' = IF resp.status = 200
                         THEN registered \cup {<<username, password>>}
                         ELSE registered
        /\ last' = Handled("register", username, Absent, resp)
        /\ UNCHANGED <<song_store, clock, browser, inflight>>

\* POST /register, run without interruption (one event loop: the handler
\* has no await)
register(username, password, email) ==
    LET failed == register_checks(users, username, email)
        done == register_insert(users, username, password, email)
        resp == IF failed # {} THEN CHOOSE e \in failed : TRUE ELSE done.resp
    IN  /\ users' = IF failed # {} THEN users ELSE done.store
        /\ registered' = IF resp.status = 200
                         THEN registered \cup {<<username, password>>}
                         ELSE registered
        /\ last' = Handled("register", username, Absent, resp)
        /\ UNCHANGED <<song_store, clock, browser, inflight>>

\* POST /register in worker process w, up to the insert: lines 174-185
register_check(w, username, password, email) ==
    LET failed == register_checks(users, username, email)
    IN  /\ \A r \in inflight : r.worker # w
        /\ IF failed # {}
           THEN /\ last' = Handled("register", username, Absent, CHOOSE e \in failed : TRUE)
                /\ UNCHANGED inflight
           ELSE /\ inflight' = inflight \cup
                       {[worker |-> w, username |-> username,
                         password |-> password, email |-> email]}
                /\ UNCHANGED last
        /\ UNCHANGED <<users, song_store, clock, browser, registered>>

\* POST /register in worker process w, the insert: lines 186-188
register_create(w) ==
    \E r \in inflight :
        LET done == register_insert(users, r.username, r.password, r.email)
        IN  /\ r.worker = w
            /\ inflight' = inflight \ {r}
            /\ users' = done.store
            /\ registered' = IF done.resp.status = 200
                             THEN registered \cup {<<r.username, r.password>>}
                             ELSE registered
            /\ last' = Handled("register", r.username, Absent, done.resp)
            /\ UNCHANGED <<song_store, clock, browser>>

\* The response of POST /token that names the username it did not find
login_response_leaky(store, username, password, t) ==
    LET user == authenticate_user(store, username, password)
    IN  IF user = {}
        THEN IF get_user_by_username(store, username) = {}
             THEN HTTPException(404, "User not found", None)
             ELSE HTTPException(401, "Incorrect username or password",
                                "WWW-Authenticate: Bearer")
        ELSE LET access_token_expires == timedelta_minutes(ACCESS_TOKEN_EXPIRE_MINUTES)
                 access_token ==
                     create_access_token((CHOOSE r \in user : TRUE).username,
                                         access_token_expires, t)
             IN  Response(303, "/songs", None, None, {access_token})

\* The response of POST /token for a store and a time
login_response(store, username, password, t) ==
    LET user == authenticate_user(store, username, password)
    IN  IF user = {}
        THEN HTTPException(401, "Incorrect username or password",
                           "WWW-Authenticate: Bearer")
        ELSE LET access_token_expires == timedelta_minutes(ACCESS_TOKEN_EXPIRE_MINUTES)
                 access_token ==
                     create_access_token((CHOOSE r \in user : TRUE).username,
                                         access_token_expires, t)
             IN  Response(303, "/songs", None, None, {access_token})

\* POST /token; the browser stores the cookie the response sets
login_for_access_token(username, password) ==
    LET resp == login_response(users, username, password, now)
    IN  /\ last' = Handled("login", username, Absent, resp)
        /\ cookie' = IF resp.set_cookie = {} THEN cookie
                     ELSE CHOOSE k \in resp.set_cookie : TRUE
        /\ issued_at' = IF resp.set_cookie = {} THEN issued_at ELSE now
        /\ UNCHANGED <<users, song_store, clock, copied, registered, inflight>>

\* GET /logout: the response deletes the browser's cookie
logout ==
    /\ last' = Handled("logout", None, Absent,
                       Response(303, "/login", None, None, {Absent}))
    /\ cookie' = Absent
    /\ UNCHANGED <<users, song_store, clock, issued_at, copied, registered, inflight>>

\* A handler that only reads: the dependency, then the rendered view
ReadOnly(op, view, token) ==
    LET current == get_current_active_user(token, users, now)
    IN  /\ last' = Handled(op, None, token,
                           IF current.exc # {} THEN CHOOSE e \in current.exc : TRUE
                           ELSE TemplateResponse(view, UserOf(current).username))
        /\ UNCHANGED <<users, song_store, clock, browser, registered, inflight>>

\* GET /users/me
read_users_me(token) == ReadOnly("read_users_me", "User", token)

\* GET /songs
get_user_songs(token) == ReadOnly("get_user_songs", "index.html", token)

\* GET /profile
get_user_profile(token) == ReadOnly("get_user_profile", "user_profile.html", token)

\* POST /songs/add
add_song(token, name, artist, filename) ==
    LET current == get_current_active_user(token, users, now)
        file_path == <<"static", filename>>
    IN  /\ UNCHANGED <<users, clock, browser, registered, inflight>>
        /\ IF current.exc # {}
           THEN /\ last' = Handled("add_song", None, token, CHOOSE e \in current.exc : TRUE)
                /\ UNCHANGED song_store
           ELSE /\ NextId(songs) <= MaxSongId
                /\ files' = files \cup {file_path}
                /\ songs' = songs \cup
                       {[id |-> NextId(songs), name |-> name, artist |-> artist,
                         file_path |-> file_path, owner_id |-> UserOf(current).id]}
                /\ last' = Handled("add_song", None, token,
                               TemplateResponse("song_added.html",
                                                UserOf(current).username))

\* db.query(SongModel).filter(SongModel.name == name, SongModel.artist == artist)
query_song(rows, name, artist) == {s \in rows : s.name = name /\ s.artist = artist}

\* POST /songs/edit; .first() is any of the matching rows
edit_song(token, name, artist, new_name, new_artist) ==
    LET current == get_current_active_user(token, users, now)
        found == query_song(songs, name, artist)
    IN  /\ UNCHANGED <<users, files, clock, browser, registered, inflight>>
        /\ IF current.exc # {}
           THEN /\ last' = Handled("edit_song", None, token, CHOOSE e \in current.exc : TRUE)
                /\ UNCHANGED songs
           ELSE IF found = {}
           THEN /\ last' = Handled("edit_song", None, token,
                               Response(404,
                                   "Song not found or you do not have permission to edit it",
                                   None, UserOf(current).username, {}))
                /\ UNCHANGED songs
           ELSE \E song \in found :
                /\ songs' = (songs \ {song}) \cup
                       {[song EXCEPT !.name = IF name # "" THEN new_name ELSE @,
                                     !.artist = IF artist # "" THEN new_artist ELSE @]}
                /\ last' = Handled("edit_song", None, token,
                               TemplateResponse("song_edited.html",
                                                UserOf(current).username))

\* POST /songs/delete
delete_song(token, name, artist) ==
    LET current == get_current_active_user(token, users, now)
        found == query_song(songs, name, artist)
    IN  /\ UNCHANGED <<users, clock, browser, registered, inflight>>
        /\ IF current.exc # {}
           THEN /\ last' = Handled("delete_song", None, token, CHOOSE e \in current.exc : TRUE)
                /\ UNCHANGED song_store
           ELSE IF found = {}
           THEN /\ last' = Handled("delete_song", None, token,
                               Response(404,
                                   "Song not found or you dont have permission to delete it",
                                   None, UserOf(current).username, {}))
                /\ UNCHANGED song_store
           ELSE \E song \in found :
                /\ files' = files \ {song.file_path}
                /\ songs' = songs \ {song}
                /\ last' = Handled("delete_song", None, token,
                               TemplateResponse("song_deleted.html",
                                                UserOf(current).username))

\* ------------------------------------------------------- specifications

\* A disabled account: the application never sets the flag, the database
\* it opens (./test.db) may hold one
DisabledUser ==
    [id |-> 1, username |-> "alice", email |-> "d@x",
     hashed_password |-> get_password_hash(PwShort), disabled |-> TRUE]

Init ==
    /\ users \in {{}, {DisabledUser}}
    /\ songs = {}
    /\ files = {}
    /\ now = 0
    /\ advances = 0
    /\ cookie = Absent
    /\ issued_at = 0
    /\ copied = Absent
    /\ registered = {}
    /\ inflight = {}
    /\ last = Handled("none", None, Absent, TemplateResponse("logup_user.html", None))

\* Every request, with every input
Next ==
    \/ \E d \in ClockSteps : Advance(d)
    \/ CopyToken
    \/ \E u \in Usernames, p \in Passwords, e \in Emails : register(u, p, e)
    \/ \E u \in Usernames, p \in Passwords : login_for_access_token(u, p)
    \/ logout
    \/ \E k \in RequestTokens : read_users_me(k)
    \/ \E k \in RequestTokens : get_user_songs(k)
    \/ \E k \in RequestTokens : get_user_profile(k)
    \/ \E k \in RequestTokens, n \in SongNames, a \in Artists, f \in Filenames :
           add_song(k, n, a, f)
    \/ \E k \in RequestTokens, n \in SongNames, a \in Artists,
          nn \in SongNames, na \in Artists : edit_song(k, n, a, nn, na)
    \/ \E k \in RequestTokens, n \in SongNames, a \in Artists : delete_song(k, n, a)

Spec == Init /\ [][Next]_vars

\* The specifications below are the same handlers with their inputs narrowed
\* to what one group of properties reads, so that each is explored in full.

\* Sessions: accounts with one password, the browser's cookie, its copy and
\* the clock, read through the three handlers that only read
NextSession ==
    \/ \E d \in ClockSteps : Advance(d)
    \/ CopyToken
    \/ \E u \in Usernames, e \in Emails : register(u, PwShort, e)
    \/ \E u \in Usernames : login_for_access_token(u, PwShort)
    \/ logout
    \/ \E k \in RequestTokens : read_users_me(k)
    \/ \E k \in RequestTokens : get_user_songs(k)
    \/ \E k \in RequestTokens : get_user_profile(k)

SpecSession == Init /\ [][NextSession]_vars

\* The six protected handlers, with the tokens made outside the server
NextProtected ==
    \/ \E d \in ClockSteps : Advance(d)
    \/ \E u \in Usernames : register(u, PwShort, "a@x")
    \/ \E k \in Crafted : read_users_me(k)
    \/ \E k \in Crafted : get_user_songs(k)
    \/ \E k \in Crafted : get_user_profile(k)
    \/ \E k \in Crafted : add_song(k, "n1", "a1", "f1")
    \/ \E k \in Crafted, nn \in SongNames : edit_song(k, "n1", "a1", nn, "a1")
    \/ \E k \in Crafted : delete_song(k, "n1", "a1")

SpecProtected == Init /\ [][NextProtected]_vars

\* Accounts: registration and login with every input, and the sessions they
\* open
NextAccounts ==
    \/ \E u \in Usernames, p \in Passwords, e \in Emails : register(u, p, e)
    \/ \E u \in Usernames, p \in Passwords : login_for_access_token(u, p)
    \/ logout
    \/ \E k \in RequestTokens : get_user_profile(k)
    \/ \E d \in ClockSteps : Advance(d)

SpecAccounts == Init /\ [][NextAccounts]_vars

\* Songs: two accounts and their collections
NextSongs ==
    \/ \E u \in Usernames, e \in Emails : register(u, PwShort, e)
    \/ \E u \in Usernames : login_for_access_token(u, PwShort)
    \/ \E n \in SongNames, a \in Artists, f \in Filenames : add_song(cookie, n, a, f)
    \/ \E n \in SongNames, a \in Artists, nn \in SongNames, na \in Artists :
           edit_song(cookie, n, a, nn, na)
    \/ \E n \in SongNames, a \in Artists : delete_song(cookie, n, a)

SpecSongs == Init /\ [][NextSongs]_vars

\* Registration served by several worker processes over the one database
Workers == {"w1", "w2"}

NextWorkers ==
    \/ \E w \in Workers, u \in Usernames, p \in Passwords, e \in Emails :
           register_check(w, u, p, e)
    \/ \E w \in Workers : register_create(w)

SpecWorkers == Init /\ [][NextWorkers]_vars

\* --------------------------------------------------------------- claims

\* A step is a request to one of the six protected handlers carrying cookie k
ProtectedRequest(k) ==
    \/ read_users_me(k)
    \/ get_user_songs(k)
    \/ get_user_profile(k)
    \/ \E n \in SongNames, a \in Artists, f \in Filenames : add_song(k, n, a, f)
    \/ \E n \in SongNames, a \in Artists, nn \in SongNames, na \in Artists :
           edit_song(k, n, a, nn, na)
    \/ \E n \in SongNames, a \in Artists : delete_song(k, n, a)

ProtectedOps == {"read_users_me", "get_user_songs", "get_user_profile",
                 "add_song", "edit_song", "delete_song"}

\* The token is a JWT signed with the server's key that has not expired at t
\* and names a user of the store
ValidFor(k, store, t) ==
    /\ k.kind = "jwt"
    /\ k.key = SECRET_KEY
    /\ ~(k.exp < timegm(t))
    /\ k.sub # None
    /\ \E r \in store : r.username = k.sub

\* C1: a request to a protected handler whose cookie is absent, malformed,
\* signed with another key, expired, without a username claim, or names no
\* user of the store, is answered with the one credentials_exception (401,
\* "Could not validate credentials"), whatever the cause.
C1_OneUnauthorized ==
    [][(/\ last'.op \in ProtectedOps
         /\ \/ last'.tok.kind \in {"absent", "garbage"}
            \/ last'.tok.key # SECRET_KEY
            \/ last'.tok.exp < timegm(now)
            \/ last'.tok.sub = None
            \/ ~ \E r \in users : r.username = last'.tok.sub
         /\ ProtectedRequest(last'.tok))
       => last'.resp = credentials_exception]_vars

\* C1 witness: a song handler refused an expired, well-signed token
C1_Witness ==
    /\ last.op \in {"add_song", "edit_song", "delete_song"}
    /\ last.tok.kind = "jwt" /\ last.tok.key = SECRET_KEY /\ last.tok.sub # None
    /\ last.tok.exp < timegm(now)
    /\ last.resp = credentials_exception

\* C2: a request to a protected handler with a valid, unexpired token of an
\* existing disabled user is answered Forbidden (403), not Unauthorized, and
\* the handler body does not run (the stores are unchanged).
C2_DisabledForbidden ==
    [][(/\ last'.op \in ProtectedOps
         /\ ValidFor(last'.tok, users, now)
         /\ \E r \in users : r.username = last'.tok.sub /\ r.disabled
         /\ ProtectedRequest(last'.tok))
       => /\ last'.resp.status = 403
          /\ last'.resp # credentials_exception
          /\ UNCHANGED <<users, songs, files>>]_vars

\* C3: the browser's token, issued at issued_at with the login TTL to an
\* active user, is accepted at every time strictly before issued_at + TTL and
\* refused at issued_at + TTL and later.
C3_ExactExpiry ==
    [][(/\ last'.op \in ProtectedOps /\ last'.tok = cookie /\ cookie.kind = "jwt"
        /\ \E r \in users : r.username = cookie.sub /\ ~r.disabled
        /\ ProtectedRequest(cookie))
       => IF now < issued_at + timedelta_minutes(ACCESS_TOKEN_EXPIRE_MINUTES)
          THEN last'.resp.status = 200
          ELSE last'.resp = credentials_exception]_vars

\* C4: register with a username of the store answers "Username already
\* registered", and every register that fails leaves the users table as it was.
C4_FailedRegisterWritesNothing ==
    [][last'.op = "register"
       => \A p \in Passwords, e \in Emails :
            register(last'.arg, p, e)
            => /\ (\E r \in users : r.username = last'.arg)
                      => last'.resp =
                           HTTPException(400, "Username already registered", None)
               /\ last'.resp.status # 200 => users' = users]_vars

\* C4 witness: a register was refused for its username
C4_Witness ==
    /\ last.op = "register"
    /\ last.resp.detail = "Username already registered"
    /\ \E r \in users : r.username = last.arg

\* C5: register with a new username and no email succeeds and stores the user
\* with disabled = FALSE, whatever the store holds; the email error is given
\* only for an email that was provided and is in the store; when username and
\* email both collide the username error is the one reported.
C5_EmailOnlyWhenProvided ==
    [][last'.op = "register"
       => \A p \in Passwords, e \in Emails :
            register(last'.arg, p, e)
            => /\ (e = None /\ ~ \E r \in users : r.username = last'.arg)
                      => /\ last'.resp.status = 200
                         /\ \E r \in users' : r.username = last'.arg /\ ~r.disabled
               /\ last'.resp.detail = "Email already registered"
                      => e # None /\ \E r \in users : r.email = e
               /\ ((\E r \in users : r.username = last'.arg)
                     /\ (\E r \in users : r.email = e))
                      => last'.resp.detail = "Username already registered"]_vars

GenericLoginFailure ==
    HTTPException(401, "Incorrect username or password", "WWW-Authenticate: Bearer")

\* C6: a login that does not succeed is answered with the one generic 401,
\* sets no cookie and changes no store; a login for a username that is not in
\* the store is such a failure, and the store without the user's row would
\* have answered a failed login the same.
C6_FailedLoginUniform ==
    [][last'.op = "login"
       => \A p \in Passwords :
            login_for_access_token(last'.arg, p)
            => /\ (~ \E r \in users : r.username = last'.arg)
                      => last'.resp = GenericLoginFailure
               /\ last'.resp.status # 303
                      => /\ last'.resp = GenericLoginFailure
                         /\ last'.resp.set_cookie = {} /\ cookie' = cookie
                         /\ UNCHANGED <<users, songs, files>>
                         /\ login_response(
                                users \ get_user_by_username(users, last'.arg),
                                last'.arg, p, now) = last'.resp]_vars

\* C6 witness: a login with the username of a stored user was refused
C6_Witness ==
    /\ last.op = "login"
    /\ last.resp = GenericLoginFailure
    /\ \E r \in users : r.username = last.arg

\* C7: for a pair <<username, password>> register accepted, a login with the
\* pair is answered with a token for that username expiring 30 minutes later,
\* and a login with the username and another password is refused.
C7_RegisteredPairLogsIn ==
    [][last'.op = "login"
       => \A p \in Passwords :
            (/\ login_for_access_token(last'.arg, p)
             /\ \E q \in Passwords : <<last'.arg, q>> \in registered)
            => IF <<last'.arg, p>> \in registered
               THEN last'.resp.set_cookie =
                      {Token("jwt", last'.arg,
                             (now + 30 * 60 * TicksPerSecond) \div TicksPerSecond,
                             SECRET_KEY)}
               ELSE last'.resp.status = 401 /\ last'.resp.set_cookie = {}]_vars

\* C8: no two rows of the users table have the same username, also when
\* register requests interleave between their checks and their insert.
C8_UsernameUnique ==
    \A r1 \in users, r2 \in users : r1.username = r2.username => r1 = r2

\* C8 witness: a register that had passed its checks had its insert refused,
\* the username being in the table by then
C8_Witness ==
    /\ last.op = "register"
    /\ last.resp.status = 500
    /\ Cardinality({r \in users : r.username = last.arg}) = 1

\* C9: logout changes no store, and after it a copy of the token is still
\* accepted at every time before the token's expiry.
C9_LogoutRevokesNothing ==
    [][/\ last'.op = "logout" => UNCHANGED <<users, songs, files>>
       /\ (/\ last'.op \in ProtectedOps /\ last'.tok = copied /\ cookie = Absent
           /\ copied.kind = "jwt" /\ timegm(now) < copied.exp
           /\ \E r \in users : r.username = copied.sub
           /\ ProtectedRequest(copied))
          => last'.resp # credentials_exception]_vars

\* C9 witness: after a logout, a request with the copied token was served
C9_Witness ==
    /\ cookie = Absent
    /\ copied.kind = "jwt"
    /\ last.op \in ProtectedOps
    /\ last.tok = copied
    /\ last.resp.status = 200
    /\ now > issued_at

\* C10: a song row is changed or deleted only by a request of its owner, and
\* an edit or delete naming a song the requester does not own is answered 404
\* and changes nothing.
C10_OnlyOwnerChanges ==
    [][/\ \A s \in songs :
            s \notin songs'
            => \E r \in users : r.username = last'.resp.user /\ r.id = s.owner_id
       /\ \A n \in SongNames, a \in Artists :
            (/\ \/ delete_song(last'.tok, n, a)
                \/ \E nn \in SongNames, na \in Artists : edit_song(last'.tok, n, a, nn, na)
             /\ query_song(songs, n, a) # {}
             /\ \E r \in users :
                  /\ r.username = last'.resp.user
                  /\ \A s \in query_song(songs, n, a) : s.owner_id # r.id)
            => last'.resp.status = 404 /\ UNCHANGED <<songs, files>>]_vars

=============================================================================
